---- MODULE Spec2Model ----
(***************************************************************************)
(* Model of the QPE eigenvalue circuit builder                             *)
(* (qiskit/aqua/components/eigs/qpe.py) and of the approximate inverse QFT *)
(* (qiskit_acqua/utils/iqfts/approximate.py).                              *)
(*                                                                         *)
(* A qubit is a pair <<register id, index>> (index from 0, as in Python);  *)
(* a register or a Python list of qubits is a sequence of qubits; a        *)
(* circuit is the sequence of the gates appended to it.  An angle is kept  *)
(* as the pair <<num, den>> standing for num*pi/den, exactly as the code   *)
(* writes the quotient.                                                    *)
(***************************************************************************)
EXTENDS Integers, Sequences, FiniteSets, TLC

\* ---------------------------------------------------------------- bounds
\* num_qubits and degree of the Approximate component under test
MaxQubits == 3
MaxDegree == 4
\* Pauli terms of an operator handed to the builder
MaxTerms == 2
\* configured num_ancillae
MaxAncillae == 3
\* builders constructed in one run
MaxBuilders == 2
\* anonymous registers allocated by construct_circuit in one run
MaxCalls == 2

\* Python's None for an optional argument or field; Some(x) a present value
None == <<>>

Some(x) == <<x>>

Val(o) == o[1]

Max2(a, b) == IF a >= b THEN a ELSE b

RECURSIVE Pow2(_)
Pow2(e) == IF e <= 0 THEN 1 ELSE 2 * Pow2(e - 1)

\* ----------------------------------------------------------------- gates
NoAngle == <<0, 1>>

H(q) == [g |-> "h", c |-> q, t |-> q, angle |-> NoAngle]

CX(ctl, tgt) == [g |-> "cx", c |-> ctl, t |-> tgt, angle |-> NoAngle]

CU1(num, den, ctl, tgt) == [g |-> "cu1", c |-> ctl, t |-> tgt, angle |-> <<num, den>>]

\* QuantumRegister(size): the qubits <<id, 0>> .. <<id, size-1>>
QuantumRegister(id, size) == [i \in 1..size |-> <<id, i - 1>>]

\* ------------------------------------------------- Approximate (inverse) QFT
\* the commented-out window of approximate.py line 66
NeighborLowOld(j, n, d) == Max2(0, j - d + 1)

\* np.max([0, j - self._num_qubits + self._degree + 1])
NeighborLow(j, n, d) == Max2(0, j - n + d + 1)

\* a rotation loop that halves the angle once too often
RECURSIVE CU1LoopSkew(_, _, _, _)
CU1LoopSkew(j, k, lo, register) ==
    IF k < lo THEN <<>>
    ELSE <<CU1(-1, Pow2(j - k + 1), register[j + 1], register[k + 1])>>
         \o CU1LoopSkew(j, k - 1, lo, register)

\* for k in reversed(range(lo, j)): circuit.cu1(-pi / 2**(j-k), register[j], register[k])
\* entered with k = j - 1
RECURSIVE CU1Loop(_, _, _, _)
CU1Loop(j, k, lo, register) ==
    IF k < lo THEN <<>>
    ELSE <<CU1(-1, Pow2(j - k), register[j + 1], register[k + 1])>>
         \o CU1Loop(j, k - 1, lo, register)

\* for j in reversed(range(num_qubits)): entered with j = num_qubits - 1
RECURSIVE QubitLoop(_, _, _, _)
QubitLoop(j, n, d, register) ==
    IF j < 0 THEN <<>>
    ELSE <<H(register[j + 1])>>
         \o CU1Loop(j, j - 1, NeighborLow(j, n, d), register)
         \o QubitLoop(j - 1, n, d, register)

\* the register name 'q' of a register the component allocates itself
QName == 0

\* Approximate.construct_circuit(mode, register, circuit) on the component
\* self = [num_qubits, degree]; the result is [outcome, kind, circuit, dim]
ApproximateConstruct(self, mode, register, circuit) ==
    IF mode = "vector"
    THEN [outcome |-> "ok", kind |-> "matrix", circuit |-> <<>>,
          dim |-> Pow2(self.num_qubits)]
    ELSE IF mode = "circuit"
    THEN LET reg == IF register = None
                    THEN QuantumRegister(QName, self.num_qubits) ELSE Val(register)
             qc  == IF circuit = None THEN <<>> ELSE Val(circuit)
         IN IF Len(reg) < self.num_qubits
            THEN [outcome |-> "IndexError", kind |-> "none", circuit |-> qc, dim |-> 0]
            ELSE [outcome |-> "ok", kind |-> "circuit",
                  circuit |-> qc \o QubitLoop(self.num_qubits - 1, self.num_qubits,
                                              self.degree, reg),
                  dim |-> 0]
    ELSE [outcome |-> "ValueError", kind |-> "none", circuit |-> <<>>, dim |-> 0]

\* -------------------------------------------------------------- Operator
\* a coefficient re + im*i of a Pauli term; cplx tells whether the Python value
\* is a complex (isinstance(p[0], complex)) rather than a float
Coef(re, im, cplx) == [re |-> re, im |-> im, cplx |-> cplx]

\* a Pauli term p: p[0] is coef, p[1].z and p[1].x are the bit patterns
Term(coef, z, x) == [coef |-> coef, z |-> z, x |-> x]

\* abs(p[0]); the coefficients used have an integer modulus
Abs(c) ==
    LET sq == c.re * c.re + c.im * c.im
    IN CHOOSE m \in 0..sq : m * m = sq

\* sum([abs(p[0]) for p in self._operator.paulis])
RECURSIVE SumAbs(_)
SumAbs(paulis) ==
    IF paulis = <<>> THEN 0 ELSE Abs(Head(paulis).coef) + SumAbs(Tail(paulis))

\* an identity test that looks at the z pattern alone
IsIdentityZOnly(p) == \A i \in 1..Len(p.z) : p.z[i] = 0

\* np.all(p[1].z == 0) and np.all(p[1].x == 0)
IsIdentity(p) ==
    /\ \A i \in 1..Len(p.z) : p.z[i] = 0
    /\ \A i \in 1..Len(p.x) : p.x[i] = 0

\* p[0].real if isinstance(p[0], complex) else p[0]; a p[0] that is no
\* complex is the float held in re
PhaseCoef(p) == IF p.coef.cplx THEN p.coef.re ELSE p.coef.re

\* the derivation with the two formulas exchanged
DerivedEvoTimeSwapped(num_ancillae, negative_evals, lmax) ==
    IF negative_evals
    THEN <<(Pow2(num_ancillae) - 1) * 2, Pow2(num_ancillae) * lmax>>
    ELSE <<(Pow2(num_ancillae - 1) - 1) * 2, Pow2(num_ancillae) * lmax>>

\* (1 - 2**-a)*2*pi/lmax, or (1/2 - 2**-a)*2*pi/lmax with negative_evals;
\* 1 - 2**-a = (2**a - 1)/2**a and 1/2 - 2**-a = (2**(a-1) - 1)/2**a
DerivedEvoTime(num_ancillae, negative_evals, lmax) ==
    IF ~negative_evals
    THEN <<(Pow2(num_ancillae) - 1) * 2, Pow2(num_ancillae) * lmax>>
    ELSE <<(Pow2(num_ancillae - 1) - 1) * 2, Pow2(num_ancillae) * lmax>>

\* the loop of _init_constants over the Pauli terms, from term i on
RECURSIVE ScanIdentities(_, _, _)
ScanIdentities(self, i, num_identities) ==
    IF i > Len(self.operator.paulis) THEN [outcome |-> "ok", self |-> self]
    ELSE LET p == self.operator.paulis[i]
         IN IF IsIdentity(p)
            THEN IF num_identities + 1 > 1
                 THEN [outcome |-> "RuntimeError", self |-> self]
                 ELSE ScanIdentities(
                          [self EXCEPT !.ancilla_phase_coef = Some(PhaseCoef(p))],
                          i + 1, num_identities + 1)
            ELSE ScanIdentities(self, i + 1, num_identities)

\* QPE._init_constants
InitConstants(self) ==
    LET lmax == SumAbs(self.operator.paulis)
    IN IF self.evo_time = None
       THEN IF lmax = 0
            THEN [outcome |-> "ZeroDivisionError", self |-> self]
            ELSE ScanIdentities(
                     [self EXCEPT !.evo_time =
                          Some(DerivedEvoTime(self.num_ancillae, self.negative_evals, lmax))],
                     1, 0)
       ELSE ScanIdentities(self, 1, 0)

\* QPE.__init__: the fields, then _init_constants
QPEInit(operator, iqft, num_ancillae, evo_time, hermitian_matrix, negative_evals, ne_qfts) ==
    InitConstants([num_ancillae |-> num_ancillae,
                   iqft |-> iqft,
                   operator |-> operator,
                   evo_time |-> evo_time,
                   hermitian_matrix |-> hermitian_matrix,
                   negative_evals |-> negative_evals,
                   ne_qfts |-> ne_qfts,
                   ancilla_phase_coef |-> None,
                   circuit |-> None,
                   output_register |-> None,
                   input_register |-> None])

\* QPE.get_register_sizes
GetRegisterSizes(self) == <<self.operator.num_qubits, self.num_ancillae>>

\* QPE.get_scaling
GetScaling(self) == self.evo_time

\* ------------------------------------------------------------ init_params
\* the list object that is the default value of __init__'s ne_qfts argument
DefaultPair == [id |-> 0, items |-> <<None, None>>]

\* a list object the call creates
FreshPair(id, first, second) == [id |-> id, items |-> <<first, second>>]

\* the component get_pluggable_class(...).init_params builds from its section
\* of params; the main and the auxiliary components are Approximate builders
Component(num_qubits, degree) == [num_qubits |-> num_qubits, degree |-> degree]

\* the terms r*(X (x) P) of the extended matrix, r the real part of P's
\* coefficient in the matrix (lines 147-150, upper right and lower left block)
RECURSIVE XTerms(_)
XTerms(paulis) ==
    IF paulis = <<>> THEN <<>>
    ELSE LET p == Head(paulis)
         IN (IF p.coef.re = 0 THEN <<>>
             ELSE <<Term(Coef(p.coef.re, 0, TRUE), <<0>> \o p.z, <<1>> \o p.x)>>)
            \o XTerms(Tail(paulis))

\* the terms -s*(Y (x) P), s the imaginary part of P's coefficient
RECURSIVE YTerms(_)
YTerms(paulis) ==
    IF paulis = <<>> THEN <<>>
    ELSE LET p == Head(paulis)
         IN (IF p.coef.im = 0 THEN <<>>
             ELSE <<Term(Coef(0 - p.coef.im, 0, TRUE), <<1>> \o p.z, <<1>> \o p.x)>>)
            \o YTerms(Tail(paulis))

\* B = ((0, A), (A+, 0)) as an operator: with A = H1 + i*H2, B = X(x)H1 - Y(x)H2
Hermitize(matrix) ==
    [num_qubits |-> matrix.num_qubits + 1,
     paulis |-> XTerms(matrix.paulis) \o YTerms(matrix.paulis)]

\* QPE.init_params(params, matrix).  eigs is the eigs section of params;
\* iqft_degree and qft_degree stand for the iqft and qft sections; matrix is
\* given by its Pauli expansion.  args keeps the configured negative_evals:
\* the local flag set for a non-hermitian matrix only selects ne_qfts.
InitParams(eigs, matrix, iqft_degree, qft_degree, pair_id) ==
    LET num_ancillae == IF eigs.negative_evals
                        THEN eigs.num_ancillae + 1 ELSE eigs.num_ancillae
        negative_evals == IF ~eigs.hermitian_matrix THEN TRUE ELSE eigs.negative_evals
        operator == IF ~eigs.hermitian_matrix THEN Hermitize(Val(matrix)) ELSE Val(matrix)
        iqft_num_qubits == eigs.num_ancillae
        iqft == Component(iqft_num_qubits, iqft_degree)
        ne_qfts == IF negative_evals
                   THEN FreshPair(pair_id,
                                  Some(Component(iqft_num_qubits - 1, qft_degree)),
                                  Some(Component(iqft_num_qubits - 1, iqft_degree)))
                   ELSE FreshPair(pair_id, None, None)
    IN IF matrix = None THEN [outcome |-> "AquaError", self |-> None]
       ELSE QPEInit(operator, iqft, num_ancillae, eigs.evo_time,
                    eigs.hermitian_matrix, eigs.negative_evals, ne_qfts)

\* ------------------------------------------------------- construct_circuit
\* the circuit PhaseEstimation.construct_circuit returns: one block standing
\* for the ancilla Hadamards, the controlled evolutions and the inverse QFT
PhaseEstimationCircuit(self, q, a) ==
    <<[g |-> "pe", state |-> q, ancilla |-> a, evo_time |-> self.evo_time,
       iqft |-> self.iqft]>>

\* for qi in qs: qc.cx(sgn, qi)
SignCNots(sgn, qs) == [i \in 1..Len(qs) |-> CX(sgn, qs[i])]

\* the rotations without the reversal of qs
SignRotationsForward(sgn, qs) == [i \in 1..Len(qs) |-> CU1(2, Pow2(i), sgn, qs[i])]

\* for i, qi in enumerate(reversed(qs)): qc.cu1(2*pi/2**(i+1), sgn, qi)
SignRotations(sgn, qs) ==
    [i \in 1..Len(qs) |-> CU1(2, Pow2(i), sgn, qs[Len(qs) - i + 1])]

\* QPE._handle_negative_evals(qc, q): [outcome, circuit]
HandleNegativeEvals(self, qc, q) ==
    LET sgn == q[1]
        qs  == SubSeq(q, 2, Len(q))
        qc1 == qc \o SignCNots(sgn, qs)
        first  == self.ne_qfts.items[1]
        second == self.ne_qfts.items[2]
    IN IF first = None THEN [outcome |-> "AttributeError", circuit |-> qc1]
       ELSE LET r1 == ApproximateConstruct(Val(first), "circuit", Some(qs), Some(qc1))
            IN IF r1.outcome # "ok" THEN [outcome |-> r1.outcome, circuit |-> r1.circuit]
               ELSE LET qc2 == r1.circuit \o SignRotations(sgn, qs)
                    IN IF second = None
                       THEN [outcome |-> "AttributeError", circuit |-> qc2]
                       ELSE LET r2 == ApproximateConstruct(Val(second), "circuit",
                                                           Some(qs), Some(qc2))
                            IN [outcome |-> r2.outcome, circuit |-> r2.circuit]

\* a register allocation that hands out the same register every time
AnonRegisterSame(k, size) == QuantumRegister(QName + 2, size)

\* the anonymous register QuantumRegister(size) allocates when k exist already
AnonRegister(k, size) == QuantumRegister(QName + 2 + k, size)

\* QPE.construct_circuit after the mode check, when k anonymous registers
\* exist: [outcome, ret, self, allocated]
QPEBuild(self, register, k) ==
    LET a  == AnonRegister(k, self.num_ancillae)
        q  == register
        qc == PhaseEstimationCircuit(self, q, a)
        fixed == IF self.negative_evals
                 THEN HandleNegativeEvals(self, qc, a)
                 ELSE [outcome |-> "ok", circuit |-> qc]
    IN IF fixed.outcome # "ok"
       THEN [outcome |-> fixed.outcome, ret |-> None, self |-> self, allocated |-> 1]
       ELSE [outcome |-> "ok", ret |-> Some(fixed.circuit),
             self |-> [self EXCEPT !.circuit = Some(fixed.circuit),
                                   !.output_register = Some(a),
                                   !.input_register = Some(q)],
             allocated |-> 1]

\* a construct_circuit without the mode check
QPEConstructAnyMode(self, mode, register, k) == QPEBuild(self, register, k)

\* QPE.construct_circuit(mode, register)
QPEConstruct(self, mode, register, k) ==
    IF mode = "vector"
    THEN [outcome |-> "ValueError", ret |-> None, self |-> self, allocated |-> 0]
    ELSE QPEBuild(self, register, k)

\* ------------------------------------------------------------------ state
\* aqft       an Approximate component under test, [num_qubits, degree]
\* qft_call   the last call made on aqft, with its arguments and result
\* qpe        the QPE builder of the last construction (None when the
\*            construction raised and produced none)
\* pair_ids   for each builder constructed so far, in order, the identity of
\*            the list object its _ne_qfts field refers to
\* num_regs   the number of anonymous QuantumRegisters allocated so far
\* last       the last call on the QPE side, with its arguments and result
VARIABLES aqft, qft_call, qpe, pair_ids, num_regs, last

vars == <<aqft, qft_call, qpe, pair_ids, num_regs, last>>

qft_vars == <<aqft, qft_call>>

qpe_vars == <<qpe, pair_ids, num_regs, last>>

NoCall == [op |-> "none"]

\* Approximate.__init__
ApproximateInit == [num_qubits |-> 0, degree |-> 0]

Init ==
    /\ aqft = ApproximateInit
    /\ qft_call = NoCall
    /\ qpe = None
    /\ pair_ids = <<>>
    /\ num_regs = 0
    /\ last = NoCall

\* Approximate.init_args(num_qubits, degree=1)
init_args(n, d) ==
    /\ aqft' = [num_qubits |-> n, degree |-> d]
    /\ qft_call' = [op |-> "init_args"]
    /\ UNCHANGED qpe_vars

\* registers and circuits a caller may hand to construct_circuit
CallerRegister(size) == QuantumRegister(QName + 1, size)

CallerRegisters ==
    {None} \cup {Some(CallerRegister(s)) : s \in 2..(MaxQubits + 1)}

\* the circuits a caller may hand in with a register: none, an empty one, or
\* one that holds gates on that register already
CallerCircuits(register) ==
    IF register = None THEN {None}
    ELSE {None, Some(<<>>), Some(<<H(Val(register)[1])>>),
          Some(<<CX(Val(register)[1], Val(register)[Len(Val(register))]),
                 H(Val(register)[1])>>)}

Modes == {"vector", "circuit", "matrix"}

qft_construct_circuit(mode, register, circuit) ==
    /\ qft_call' = [op |-> "construct_circuit", mode |-> mode, register |-> register,
                    given |-> circuit,
                    ret |-> ApproximateConstruct(aqft, mode, register, circuit)]
    /\ UNCHANGED aqft
    /\ UNCHANGED qpe_vars

QftNext ==
    \/ \E n \in 0..MaxQubits : \E d \in {1} \cup (0..MaxDegree) : init_args(n, d)
    \/ \E mode \in Modes : \E register \in CallerRegisters :
       \E circuit \in CallerCircuits(register) :
          qft_construct_circuit(mode, register, circuit)

SpecQFT == Init /\ [][QftNext]_vars

\* ---------------------------------------------------------- QPE actions
\* Pauli terms a caller may put in an Operator: I*1.0, I*(3+4i), X*(-2.0), I*0.0
Terms ==
    {Term(Coef(1, 0, FALSE), <<0>>, <<0>>), Term(Coef(3, 4, TRUE), <<0>>, <<0>>),
     Term(Coef(-2, 0, FALSE), <<0>>, <<1>>), Term(Coef(0, 0, FALSE), <<0>>, <<0>>)}

RECURSIVE SeqsUpTo(_, _)
SeqsUpTo(S, n) ==
    IF n = 0 THEN {<<>>}
    ELSE LET shorter == SeqsUpTo(S, n - 1)
         IN shorter \cup {Append(q, x) : q \in shorter, x \in S}

Operators == {[num_qubits |-> 1, paulis |-> ps] : ps \in SeqsUpTo(Terms, MaxTerms)}

\* matrices by their Pauli expansion: distinct strings in the order I, Z, no
\* zero weight; the coefficients are complex numbers
MatrixI == {Term(Coef(1, 0, TRUE), <<0>>, <<0>>), Term(Coef(3, 4, TRUE), <<0>>, <<0>>)}

MatrixZ == {Term(Coef(-2, 0, TRUE), <<1>>, <<0>>), Term(Coef(0, 1, TRUE), <<1>>, <<0>>)}

Matrices ==
    {[num_qubits |-> 1, paulis |-> ps] :
        ps \in {<<>>} \cup {<<a>> : a \in MatrixI \cup MatrixZ}
               \cup {<<a, b>> : a \in MatrixI, b \in MatrixZ}}

EvoTimes == {None, Some(<<1, 3>>)}

\* degree 0 is the exact (standard) transform
Degrees == 0..1

NextPairId == Len(pair_ids) + 1

\* QPE(operator, iqft, num_ancillae=.., evo_time=.., negative_evals=..)
\* without ne_qfts (given = FALSE) or with a list the caller made
NewQPE(operator, num_ancillae, evo_time, negative_evals, given, degree) ==
    /\ Len(pair_ids) < MaxBuilders
    /\ LET ne_qfts == IF given
                      THEN FreshPair(NextPairId,
                                     Some(Component(num_ancillae - 1, degree)),
                                     Some(Component(num_ancillae - 1, degree)))
                      ELSE DefaultPair
           r == QPEInit(operator, Component(num_ancillae, degree), num_ancillae,
                        evo_time, TRUE, negative_evals, ne_qfts)
       IN /\ qpe' = IF r.outcome = "ok" THEN Some(r.self) ELSE None
          /\ pair_ids' = IF r.outcome = "ok"
                         THEN Append(pair_ids, ne_qfts.id) ELSE pair_ids
          /\ last' = [op |-> "QPE", outcome |-> r.outcome, operator |-> operator,
                      num_ancillae |-> num_ancillae, evo_time |-> evo_time,
                      negative_evals |-> negative_evals]
    /\ UNCHANGED <<num_regs, aqft, qft_call>>

init_params(eigs, matrix, iqft_degree, qft_degree) ==
    /\ Len(pair_ids) < MaxBuilders
    /\ LET r == InitParams(eigs, matrix, iqft_degree, qft_degree, NextPairId)
       IN /\ qpe' = IF r.outcome = "ok" THEN Some(r.self) ELSE None
          /\ pair_ids' = IF r.outcome = "ok"
                         THEN Append(pair_ids, r.self.ne_qfts.id) ELSE pair_ids
          /\ last' = [op |-> "init_params", outcome |-> r.outcome, eigs |-> eigs,
                      matrix |-> matrix]
    /\ UNCHANGED <<num_regs, aqft, qft_call>>

QpeRegisters == {None, Some(CallerRegister(1))}

construct_circuit(mode, register) ==
    /\ qpe # None
    /\ mode = "vector" \/ num_regs < MaxCalls
    /\ LET r == QPEConstruct(Val(qpe), mode, register, num_regs)
       IN /\ qpe' = Some(r.self)
          /\ num_regs' = num_regs + r.allocated
          /\ last' = [op |-> "construct_circuit", outcome |-> r.outcome,
                      mode |-> mode, register |-> register, ret |-> r.ret]
    /\ UNCHANGED <<pair_ids, aqft, qft_call>>

get_scaling ==
    /\ qpe # None
    /\ last' = [op |-> "get_scaling", outcome |-> "ok", ret |-> GetScaling(Val(qpe))]
    /\ UNCHANGED <<qpe, pair_ids, num_regs, aqft, qft_call>>

get_register_sizes ==
    /\ qpe # None
    /\ last' = [op |-> "get_register_sizes", outcome |-> "ok",
                ret |-> GetRegisterSizes(Val(qpe))]
    /\ UNCHANGED <<qpe, pair_ids, num_regs, aqft, qft_call>>

EigsParams ==
    [num_ancillae : 1..MaxAncillae, evo_time : EvoTimes,
     hermitian_matrix : BOOLEAN, negative_evals : BOOLEAN]

\* one builder: the first call constructs it, the later ones use it
Next ==
    \/ /\ last.op = "none"
       /\ \E operator \in Operators : \E num_ancillae \in 1..MaxAncillae :
          \E evo_time \in EvoTimes : \E negative_evals \in BOOLEAN :
          \E given \in BOOLEAN : \E degree \in Degrees :
             NewQPE(operator, num_ancillae, evo_time, negative_evals, given, degree)
    \/ /\ last.op = "none"
       /\ \E eigs \in EigsParams : \E matrix \in {None} \cup {Some(m) : m \in Matrices} :
          \E iqft_degree \in Degrees : \E qft_degree \in Degrees :
             init_params(eigs, matrix, iqft_degree, qft_degree)
    \/ \E mode \in Modes : \E register \in QpeRegisters : construct_circuit(mode, register)
    \/ get_scaling
    \/ get_register_sizes

Spec == Init /\ [][Next]_vars

\* several builders, one after the other, over one operator
SampleOperator ==
    [num_qubits |-> 1, paulis |-> <<Term(Coef(1, 0, FALSE), <<0>>, <<0>>)>>]

NextBuilders ==
    \/ \E num_ancillae \in 1..MaxAncillae : \E evo_time \in EvoTimes :
       \E negative_evals \in BOOLEAN : \E given \in BOOLEAN :
          NewQPE(SampleOperator, num_ancillae, evo_time, negative_evals, given, 0)
    \/ \E eigs \in EigsParams : \E matrix \in {None, Some(SampleOperator)} :
          init_params(eigs, matrix, 0, 0)
    \/ \E mode \in {"vector", "circuit"} : construct_circuit(mode, None)
    \/ get_scaling
    \/ get_register_sizes

SpecBuilders == Init /\ [][NextBuilders]_vars

\* ------------------------------------------------- claims on the builder
\* the number of gates of one kind in a circuit
CountOf(name, circ) == Cardinality({i \in 1..Len(circ) : circ[i].g = name})

\* the last step constructed a builder (by __init__ or init_params)
Constructed == last.op \in {"QPE", "init_params"} /\ last.outcome = "ok"

\* the operator a construction call hands to __init__
GivenOperator ==
    IF last.op = "QPE" THEN last.operator
    ELSE IF last.eigs.hermitian_matrix THEN Val(last.matrix)
    ELSE Hermitize(Val(last.matrix))

GivenEvoTime == IF last.op = "QPE" THEN last.evo_time ELSE last.eigs.evo_time

IdentityTerms(operator) ==
    {i \in 1..Len(operator.paulis) :
        /\ \A b \in 1..Len(operator.paulis[i].z) : operator.paulis[i].z[b] = 0
        /\ \A b \in 1..Len(operator.paulis[i].x) : operator.paulis[i].x[b] = 0}

\* L: the absolute values of the coefficients, summed term by term
RECURSIVE AbsSumTo(_, _)
AbsSumTo(operator, i) ==
    IF i = 0 THEN 0
    ELSE LET c == operator.paulis[i].coef
         IN (CHOOSE m \in 0..(c.re * c.re + c.im * c.im) :
                 m * m = c.re * c.re + c.im * c.im)
            + AbsSumTo(operator, i - 1)

AbsSum(operator) == AbsSumTo(operator, Len(operator.paulis))

\* equality of two angles <<num, den>>
SameAngle(a, b) == a[1] * b[2] = b[1] * a[2]

\* C1: construct_circuit with mode 'vector' fails with an error and returns
\* no circuit, and leaves the builder's stored circuit, input register and
\* output register as they were (unset if no call has succeeded yet).
C1_VectorFails ==
    [][(last'.op = "construct_circuit" /\ last'.mode = "vector") =>
          /\ last'.outcome = "ValueError"
          /\ last'.ret = None
          /\ qpe' # None
          /\ Val(qpe').circuit = Val(qpe).circuit
          /\ Val(qpe').input_register = Val(qpe).input_register
          /\ Val(qpe').output_register = Val(qpe).output_register
          /\ num_regs = 0 =>
                /\ Val(qpe').circuit = None
                /\ Val(qpe').input_register = None
                /\ Val(qpe').output_register = None]_vars

C1_Witness ==
    /\ last.op = "construct_circuit" /\ last.mode = "vector"
    /\ last.outcome = "ValueError"
    /\ Val(qpe).circuit # None

\* C3 as stated: two or more identity terms make the construction fail and
\* leave no builder; exactly one gives the real part of its coefficient as the
\* phase offset; none lets the derivation complete without error.
C3_AsStated ==
    last.op \in {"QPE", "init_params"} /\ last.outcome # "AquaError" =>
        LET ids == IdentityTerms(GivenOperator)
        IN /\ Cardinality(ids) >= 2 => last.outcome # "ok" /\ qpe = None
           /\ Cardinality(ids) = 1 /\ qpe # None =>
                 \A i \in ids :
                    Val(qpe).ancilla_phase_coef = Some(GivenOperator.paulis[i].coef.re)
           /\ Cardinality(ids) = 0 => last.outcome = "ok"

\* C3 (amended): the derivation fails on the division by the coefficients'
\* absolute sum when no evolution time is supplied and that sum is zero;
\* otherwise two or more identity terms make the construction fail with the
\* identity error and leave no builder, exactly one gives the real part of its
\* coefficient as the phase offset, and none completes without error and
\* records no offset.
C3_IdentityTerms ==
    last.op \in {"QPE", "init_params"} /\ last.outcome # "AquaError" =>
        LET ids == IdentityTerms(GivenOperator)
        IN IF GivenEvoTime = None /\ AbsSum(GivenOperator) = 0
           THEN last.outcome = "ZeroDivisionError" /\ qpe = None
           ELSE /\ Cardinality(ids) >= 2 => last.outcome = "RuntimeError" /\ qpe = None
                /\ Cardinality(ids) = 1 =>
                      /\ last.outcome = "ok" /\ qpe # None
                      /\ \A i \in ids :
                            Val(qpe).ancilla_phase_coef
                               = Some(GivenOperator.paulis[i].coef.re)
                /\ Cardinality(ids) = 0 =>
                      /\ last.outcome = "ok" /\ qpe # None
                      /\ Val(qpe).ancilla_phase_coef = None

C3_Witness ==
    /\ last.op = "QPE" /\ last.outcome = "ok"
    /\ Cardinality(IdentityTerms(last.operator)) = 1
    /\ Len(last.operator.paulis) = 2
    /\ Val(qpe).ancilla_phase_coef = Some(3)

\* C4: with no evolution time supplied and L > 0, get_scaling returns
\* (1 - 2^-a)*2*pi/L without negative_evals and (1/2 - 2^-a)*2*pi/L with it,
\* a the builder's ancilla count; a supplied evolution time is returned
\* unchanged.
C4_Scaling ==
    [][/\ (last'.op \in {"QPE", "init_params"} /\ last'.outcome = "ok") =>
             LET b == Val(qpe')
                 L == AbsSum(b.operator)
                 a == b.num_ancillae
                 given == IF last'.op = "QPE" THEN last'.evo_time
                          ELSE last'.eigs.evo_time
             IN /\ given # None => GetScaling(b) = given
                /\ given = None /\ L > 0 =>
                      /\ GetScaling(b) # None
                      /\ ~b.negative_evals =>
                            SameAngle(Val(GetScaling(b)), <<2 * (2 ^ a - 1), (2 ^ a) * L>>)
                      /\ b.negative_evals =>
                            SameAngle(Val(GetScaling(b)), <<2 ^ a - 2, (2 ^ a) * L>>)
       /\ last'.op = "get_scaling" =>
             last'.ret = Val(qpe).evo_time /\ qpe' = qpe
       /\ last'.op \in {"construct_circuit", "get_register_sizes"} =>
             Val(qpe').evo_time = Val(qpe).evo_time]_vars

C4_Witness ==
    /\ last.op = "get_scaling"
    /\ Val(qpe).negative_evals
    /\ Val(qpe).num_ancillae = 2
    /\ AbsSum(Val(qpe).operator) = 7
    /\ last.ret = Some(<<2, 28>>)

\* C5: init_params with hermitian_matrix = false yields a builder whose
\* negative_evals flag is true and whose ancilla count is the configured
\* num_ancillae plus one.
C5_NonHermitianSignBit ==
    (Constructed /\ last.op = "init_params" /\ ~last.eigs.hermitian_matrix) =>
        /\ Val(qpe).negative_evals
        /\ Val(qpe).num_ancillae = last.eigs.num_ancillae + 1

\* C6: for a builder produced by init_params the main inverse QFT has as many
\* qubits as get_register_sizes reports ancillae, and with the correction
\* active each auxiliary component has that count minus one.
C6_ComponentsSized ==
    (Constructed /\ last.op = "init_params") =>
        LET b == Val(qpe)
            a == GetRegisterSizes(b)[2]
        IN /\ b.iqft.num_qubits = a
           /\ b.negative_evals =>
                 \A i \in 1..2 :
                    /\ b.ne_qfts.items[i] # None
                    /\ Val(b.ne_qfts.items[i]).num_qubits = a - 1

\* the gates a component emits by itself over the qubits qs
ComponentGates(component, qs) ==
    ApproximateConstruct(Val(component), "circuit", Some(qs), None).circuit

\* the correction of C7 on the ancilla register a of length n
Correction(b, a) ==
    LET n == Len(a)
        magnitude == [i \in 1..(n - 1) |-> a[i + 1]]
    IN [p \in 1..(n - 1) |-> CX(a[1], a[p + 1])]
       \o ComponentGates(b.ne_qfts.items[1], magnitude)
       \o [k \in 1..(n - 1) |-> CU1(2, 2 ^ k, a[1], a[n - k + 1])]
       \o ComponentGates(b.ne_qfts.items[2], magnitude)

\* a call of construct_circuit stored a circuit
Built == last.op = "construct_circuit" /\ last.outcome = "ok"

\* C7: on an ancilla register of length n the correction appends, in this
\* order, n-1 CNOTs from qubit 0 onto qubits 1..n-1 ascending, the gates of
\* the first auxiliary component over qubits 1..n-1, n-1 controlled rotations
\* from qubit 0 onto qubits n-1 down to 1, the k-th (from 0) of angle
\* 2*pi/2^(k+1), and the gates of the second auxiliary component; qubit 0 is
\* no target of the CNOTs and rotations, and the gates before stay as they are.
C7_CorrectionOrder ==
    (Built /\ Val(qpe).negative_evals) =>
        LET b == Val(qpe)
            a == Val(b.output_register)
            qc == Val(b.circuit)
        IN /\ qc = PhaseEstimationCircuit(b, last.register, a) \o Correction(b, a)
           /\ \A i \in 2..Len(qc) :
                 qc[i].g \in {"cx", "cu1"} /\ qc[i].c = a[1] => qc[i].t # a[1]

C7_Witness ==
    /\ Built /\ Val(qpe).negative_evals
    /\ Len(Val(Val(qpe).output_register)) = 3
    /\ Val(Val(qpe).ne_qfts.items[1]).num_qubits = 2
    /\ CountOf("cx", Val(Val(qpe).circuit)) = 2
    /\ CountOf("h", Val(Val(qpe).circuit)) = 4

\* C8: a successful construct_circuit allocates a fresh ancilla register of
\* length num_ancillae, obtains the evolution circuit over it, appends the
\* correction if and only if negative_evals is set, and stores the circuit,
\* the ancilla register and the caller's register; a failed call stores
\* nothing, so the stored results are those of the last successful call.
C8_ConstructOrder ==
    [][last'.op = "construct_circuit" =>
          IF last'.outcome = "ok"
          THEN LET b == Val(qpe')
                   a == Val(b.output_register)
                   qc == Val(b.circuit)
               IN /\ last'.mode # "vector"
                  /\ Len(a) = Val(qpe).num_ancillae
                  /\ Val(qpe).output_register # None =>
                        \A i \in 1..Len(a) :
                           \A j \in 1..Len(Val(Val(qpe).output_register)) :
                              a[i] # Val(Val(qpe).output_register)[j]
                  /\ last'.register # None =>
                        \A i \in 1..Len(a) : \A j \in 1..Len(Val(last'.register)) :
                           a[i] # Val(last'.register)[j]
                  /\ \A k \in 0..(num_regs - 1) : a # AnonRegister(k, Len(a))
                  /\ num_regs' = num_regs + 1
                  /\ Head(qc) = PhaseEstimationCircuit(Val(qpe), last'.register, a)[1]
                  /\ Tail(qc) = IF Val(qpe).negative_evals
                                THEN Correction(Val(qpe), a) ELSE <<>>
                  /\ last'.ret = b.circuit
                  /\ b.input_register = Some(last'.register)
                  /\ b = [Val(qpe) EXCEPT !.circuit = Some(qc),
                                          !.output_register = Some(a),
                                          !.input_register = Some(last'.register)]
          ELSE qpe' = qpe /\ last'.ret = None]_vars

C8_Witness ==
    /\ Built
    /\ num_regs = 2
    /\ ~Val(qpe).negative_evals
    /\ Val(qpe).input_register = Some(None)
    /\ Val(Val(qpe).output_register) = AnonRegister(1, 2)

\* C10: no two builders hold the same auxiliary-QFT pair object.
C10_NoSharedPair ==
    \A i \in 1..Len(pair_ids) : \A j \in 1..Len(pair_ids) :
        i # j => pair_ids[i] # pair_ids[j]

\* ------------------------------------------- claims on the approximate QFT
\* a circuit-mode call of construct_circuit that returned a circuit
QftBuilt ==
    /\ qft_call.op = "construct_circuit"
    /\ qft_call.mode = "circuit"
    /\ qft_call.ret.outcome = "ok"

QftRegister ==
    IF qft_call.register = None
    THEN QuantumRegister(QName, aqft.num_qubits) ELSE Val(qft_call.register)

QftGiven == IF qft_call.given = None THEN <<>> ELSE Val(qft_call.given)

\* the gates the call appended after those already in the circuit
QftEmitted ==
    SubSeq(qft_call.ret.circuit, Len(QftGiven) + 1, Len(qft_call.ret.circuit))

\* the pairs (j, k) of register indices joined by a controlled-phase gate
Cu1Pairs(circ, reg) ==
    {<<j, k>> \in (0..(Len(reg) - 1)) \X (0..(Len(reg) - 1)) :
        \E i \in 1..Len(circ) :
            circ[i].g = "cu1" /\ circ[i].c = reg[j + 1] /\ circ[i].t = reg[k + 1]}

AllPairs(n) == {<<j, k>> \in (0..(n - 1)) \X (0..(n - 1)) : k < j}

\* C9: the block of qubit j: its Hadamard, then the rotations onto
\* k = j-1, j-2, ... down to max(0, j - n + d + 1), with angle -pi / 2^(j-k)
C9_Block(j, n, d, reg) ==
    LET lo == IF j - n + d + 1 > 0 THEN j - n + d + 1 ELSE 0
    IN <<H(reg[j + 1])>>
       \o [i \in 1..(j - lo) |-> CU1(-1, 2 ^ i, reg[j + 1], reg[j - i + 1])]

RECURSIVE C9_Blocks(_, _, _, _)
C9_Blocks(j, n, d, reg) ==
    IF j < 0 THEN <<>> ELSE C9_Block(j, n, d, reg) \o C9_Blocks(j - 1, n, d, reg)

\* C9: in circuit mode the call appends, for j = n-1 down to 0, one Hadamard
\* on qubit j followed by one controlled-phase gate (control j, target k,
\* angle -pi/2^(j-k)) for each k of the window max(0, j-n+d+1) <= k < j in
\* descending k; nothing else is emitted, exactly n Hadamards are, and the
\* gates already in a supplied circuit stay as an unchanged prefix.
C9_GateSequence ==
    QftBuilt =>
        /\ qft_call.ret.circuit
              = QftGiven \o C9_Blocks(aqft.num_qubits - 1, aqft.num_qubits,
                                      aqft.degree, QftRegister)
        /\ SubSeq(qft_call.ret.circuit, 1, Len(QftGiven)) = QftGiven
        /\ CountOf("h", QftEmitted) = aqft.num_qubits
        /\ \A i \in 1..Len(QftEmitted) : QftEmitted[i].g \in {"h", "cu1"}

C9_Witness ==
    /\ QftBuilt
    /\ aqft.num_qubits = 3 /\ aqft.degree = 1
    /\ Len(QftGiven) = 2
    /\ CountOf("cu1", QftEmitted) = 2

\* C2 as stated: degree = n gives the controlled-phase gates of every pair
\* (j,k), k < j, and degree = 0 gives only the n Hadamards.
C2_AsStated ==
    QftBuilt /\ aqft.num_qubits >= 1 =>
        /\ aqft.degree = aqft.num_qubits =>
              Cu1Pairs(QftEmitted, QftRegister) = AllPairs(aqft.num_qubits)
        /\ aqft.degree = 0 =>
              /\ CountOf("cu1", QftEmitted) = 0
              /\ Len(QftEmitted) = aqft.num_qubits

\* C2 (amended): it is degree = 0 that gives the controlled-phase gates of
\* every pair (j,k), 0 <= k < j < n, and degree = n that gives exactly the n
\* per-qubit Hadamards and no controlled-phase gate.
C2_DegreeExtremes ==
    QftBuilt /\ aqft.num_qubits >= 1 =>
        /\ aqft.degree = 0 =>
              Cu1Pairs(QftEmitted, QftRegister) = AllPairs(aqft.num_qubits)
        /\ aqft.degree = aqft.num_qubits =>
              /\ CountOf("cu1", QftEmitted) = 0
              /\ CountOf("h", QftEmitted) = aqft.num_qubits
              /\ Len(QftEmitted) = aqft.num_qubits

C2_Witness ==
    /\ QftBuilt
    /\ aqft.num_qubits = 3 /\ aqft.degree = 0
    /\ CountOf("cu1", QftEmitted) = 3

====
